---- MODULE Spec2Model ----
(***************************************************************************)
(* Model of the Arkham protocol initialization script (main and its        *)
(* helpers): the script probes the Protocol Config account, initializes,   *)
(* migrates or updates it, then gates the ARKHAM mint initialization on a  *)
(* re-fetch of the config.  The ledger (config account, mint account) is   *)
(* shared state; RPC reads may fail, submissions may be rejected or time   *)
(* out after landing, and another party may write to the config account.   *)
(***************************************************************************)
EXTENDS Integers, Sequences, FiniteSets, TLC

\* ------------------------------------------------------------------ bounds
\* how many fields of an initially present config may differ from a record
\* freshly initialized by the script
MaxDiff == 1
\* how many writes other parties make to the config account
MaxExt == 1

\* the runs of the script, in the order they are started
Runs == {1, 2}

\* ------------------------------------------------------------ identities
Wallet == "Wallet"
OracleKey == "9WE7mxzUNFGJ4df3kuALhAWLmBmFkYvTt8LkMDFVuycC"
DefaultKey == "PublicKey.default"
OtherKey == "OtherKey"
MintPda == "arkham_mint"

\* the desired configuration
CONFIG_PARAMS ==
  [ baseRatePerMb   |-> 1500,
    protocolFeeBps  |-> 200,
    tierThresholds  |-> <<100, 500, 1000>>,
    tierMultipliers |-> <<10000, 12000, 15000>>,
    tokensPer5gb    |-> 500000000,
    geoPremiums     |-> << [regionCode |-> 0, premiumBps |-> 5000],
                           [regionCode |-> 1, premiumBps |-> 4000],
                           [regionCode |-> 2, premiumBps |-> 2000] >>,
    oracleAuthority |-> OracleKey ]

\* the fields of the config record that CONFIG_PARAMS supplies
DesiredFields == DOMAIN CONFIG_PARAMS

\* what fetchProtocolConfig returns when the fetch throws
Null == [state |-> "null"]

\* ---------------------------------------------------------------- ledger
Absent == [state |-> "Absent"]
Incompatible == [state |-> "Incompatible"]

\* the record initialize_protocol_config writes for the script's arguments
InitializedRecord(authority, treasury) ==
  [ state             |-> "Compatible",
    baseRatePerMb     |-> CONFIG_PARAMS.baseRatePerMb,
    protocolFeeBps    |-> CONFIG_PARAMS.protocolFeeBps,
    tierThresholds    |-> CONFIG_PARAMS.tierThresholds,
    tierMultipliers   |-> CONFIG_PARAMS.tierMultipliers,
    tokensPer5gb      |-> CONFIG_PARAMS.tokensPer5gb,
    geoPremiums       |-> CONFIG_PARAMS.geoPremiums,
    oracleAuthority   |-> CONFIG_PARAMS.oracleAuthority,
    reputationUpdater |-> authority,
    treasury          |-> treasury,
    authority         |-> authority,
    arkhamTokenMint   |-> DefaultKey ]

\* values a present config may hold that differ from the script's
\* (the deployment migration's parameters, other keys, a linked mint)
OtherValues ==
  { <<"baseRatePerMb", 1000>>,
    <<"protocolFeeBps", 250>>,
    <<"tierThresholds", <<100000000, 500000000, 1000000000>> >>,
    <<"tierMultipliers", <<10000, 11000, 13000>> >>,
    <<"tokensPer5gb", 250000000>>,
    <<"geoPremiums", << [regionCode |-> 0, premiumBps |-> 5000] >> >>,
    <<"oracleAuthority", DefaultKey>>,
    <<"oracleAuthority", OtherKey>>,
    <<"reputationUpdater", OtherKey>>,
    <<"treasury", OtherKey>>,
    <<"authority", OtherKey>>,
    <<"arkhamTokenMint", MintPda>> }

RECURSIVE Drift(_, _)
\* the records that differ from rec in at most n fields
Drift(rec, n) ==
  IF n = 0 THEN {rec}
  ELSE {rec} \cup UNION { Drift([rec EXCEPT ![d[1]] = d[2]], n - 1) : d \in OtherValues }

\* the states the config account can be found in
InitialConfigs ==
  {Absent, Incompatible} \cup Drift(InitializedRecord(Wallet, Wallet), MaxDiff)

VARIABLES
  config,       \* the Protocol Config account on the ledger
  mint,         \* whether the ARKHAM mint account exists on the ledger
  extWrites,    \* writes other parties have made to the config account
  pc,           \* each run's position in main
  accountPhysicallyExists,  \* main's local, per run
  existingConfig,           \* main's local, per run
  currentConfig,            \* main's local, per run
  mintExists,               \* main's local, per run
  log,          \* per run, the submissions made: action, arguments, result
  seen          \* per run, what the ledger held at each read and which reads failed

vars == << config, mint, extWrites, pc, accountPhysicallyExists, existingConfig,
           currentConfig, mintExists, log, seen >>

NoReads == [info |-> "none", fetch |-> "none", gate |-> "none", gateMint |-> FALSE,
            faults |-> {}]

Init ==
  /\ config \in InitialConfigs
  /\ mint \in BOOLEAN
  /\ extWrites = 0
  /\ pc = [r \in Runs |-> "idle"]
  /\ accountPhysicallyExists = [r \in Runs |-> FALSE]
  /\ existingConfig = [r \in Runs |-> Null]
  /\ currentConfig = [r \in Runs |-> Null]
  /\ mintExists = [r \in Runs |-> FALSE]
  /\ log = [r \in Runs |-> << >>]
  /\ seen = [r \in Runs |-> NoReads]

Terminated(r) == pc[r] \in {"exit0", "exit1"}

\* ----------------------------------------------------------------- reads
\* connection.getAccountInfo: the account's bytes, or an RPC error
RpcResults == {"ok", "error"}

\* getAccountInfo(...) !== null, with the helper's catch returning null
getAccountInfo(cfg, rpc) ==
  IF rpc = "error" THEN FALSE ELSE cfg.state # "Absent"

\* accountExists: the catch returns false
accountExists(exists, rpc) ==
  IF rpc = "error" THEN FALSE ELSE exists

\* fetchProtocolConfig: the decoded record, or null when the fetch throws
\* (no account, undecodable bytes, or an RPC error)
fetchProtocolConfig(cfg, rpc) ==
  IF rpc = "error" \/ cfg.state # "Compatible" THEN Null ELSE cfg


\* ----------------------------------------------------------- submissions
\* an argument of update_protocol_config: a value, or null for "keep existing"
Some(v) == <<v>>
None == << >>

\* updateProtocolConfig passes a reputation updater instead of null
updateProtocolConfigArgs_updaterSet ==
  [ baseRatePerMb     |-> Some(CONFIG_PARAMS.baseRatePerMb),
    protocolFeeBps    |-> Some(CONFIG_PARAMS.protocolFeeBps),
    tierThresholds    |-> Some(CONFIG_PARAMS.tierThresholds),
    tierMultipliers   |-> Some(CONFIG_PARAMS.tierMultipliers),
    tokensPer5gb      |-> Some(CONFIG_PARAMS.tokensPer5gb),
    geoPremiums       |-> Some(CONFIG_PARAMS.geoPremiums),
    reputationUpdater |-> Some(DefaultKey),
    oracleAuthority   |-> Some(CONFIG_PARAMS.oracleAuthority) ]

\* the arguments updateProtocolConfig passes
updateProtocolConfigArgs ==
  [ baseRatePerMb     |-> Some(CONFIG_PARAMS.baseRatePerMb),
    protocolFeeBps    |-> Some(CONFIG_PARAMS.protocolFeeBps),
    tierThresholds    |-> Some(CONFIG_PARAMS.tierThresholds),
    tierMultipliers   |-> Some(CONFIG_PARAMS.tierMultipliers),
    tokensPer5gb      |-> Some(CONFIG_PARAMS.tokensPer5gb),
    geoPremiums       |-> Some(CONFIG_PARAMS.geoPremiums),
    reputationUpdater |-> None,
    oracleAuthority   |-> Some(CONFIG_PARAMS.oracleAuthority) ]

\* what .rpc() reports: confirmed; failed (rejected or lost, nothing landed);
\* timeout (the wait expired and .rpc() threw, but the transaction landed)
SubmitResults == {"confirmed", "failed", "timeout"}

\* whether the program accepts the instruction on the current ledger
Accepts(action, cfg, mnt) ==
  CASE action = "Initialize" -> cfg.state = "Absent"
    [] action = "Update" -> cfg.state = "Compatible" /\ cfg.authority = Wallet
    [] action = "Close" ->
         \/ cfg.state = "Incompatible"
         \/ cfg.state = "Compatible" /\ cfg.authority = Wallet
    [] action = "InitializeDependent" ->
         cfg.state = "Compatible" /\ cfg.authority = Wallet /\ ~mnt

\* update_protocol_config: every non-null argument replaces the field
ApplyUpdate(cfg, args) ==
  [f \in DOMAIN cfg |->
     IF f \in DOMAIN args /\ args[f] # None THEN args[f][1] ELSE cfg[f]]

\* the config account after the instruction landed
LandedConfig(action, cfg, args) ==
  CASE action = "Initialize" -> InitializedRecord(Wallet, Wallet)
    [] action = "Update" -> ApplyUpdate(cfg, args)
    [] action = "Close" -> Absent
    [] action = "InitializeDependent" -> [cfg EXCEPT !.arkhamTokenMint = MintPda]

\* the mint account after the instruction landed
LandedMint(action, mnt) ==
  IF action = "InitializeDependent" THEN TRUE ELSE mnt

Entry(action, args, result) ==
  IF action = "Update"
  THEN [action |-> action, result |-> result, args |-> args]
  ELSE [action |-> action, result |-> result]

\* program.methods.<instruction>(...).rpc() of run r
Submit(r, action, args, result) ==
  /\ result \in SubmitResults
  /\ result # "failed" => Accepts(action, config, mint)
  /\ config' = IF result = "failed" THEN config ELSE LandedConfig(action, config, args)
  /\ mint' = IF result = "failed" THEN mint ELSE LandedMint(action, mint)
  /\ log' = [log EXCEPT ![r] = Append(@, Entry(action, args, result))]

\* ------------------------------------------------------------------ main
\* the branch main takes on (accountPhysicallyExists, existingConfig)
Classify(exists, existing) ==
  IF ~exists THEN "Absent"
  ELSE IF existing = Null THEN "Incompatible"
  ELSE "Compatible"

\* main updates the config on every run
needsOracleUpdate_always(existing) == TRUE

needsOracleUpdate(existing) ==
  \/ existing.oracleAuthority = DefaultKey
  \/ existing.oracleAuthority # CONFIG_PARAMS.oracleAuthority

mintIsInitialized(current) ==
  current.arkhamTokenMint # DefaultKey

\* a failed initialize or update is swallowed and main goes on to the mint step
afterPrimary_swallowed(result) == "refetch"

\* only a rejected submission stops main; an expired wait is taken for success
afterPrimary_timeoutIgnored(result) ==
  IF result = "failed" THEN "exit1" ELSE "refetch"

\* where main goes after an awaited initialize or update of the config
afterPrimary(result) ==
  IF result = "confirmed" THEN "refetch" ELSE "exit1"

\* the close's failure is swallowed and main goes on to initialize
closeThenInitialize_swallowed(result) == "reinitialize"

\* main leaves the closed account as it is and goes on to the mint step
closeThenInitialize_dangling(result) ==
  IF result = "confirmed" THEN "refetch" ELSE "exit1"

\* a failed close is tried again
closeThenInitialize_retried(result) ==
  IF result = "confirmed" THEN "reinitialize" ELSE "primary"

\* where main goes after the awaited close of the migration path
closeThenInitialize(result) ==
  IF result = "confirmed" THEN "reinitialize" ELSE "exit1"

\* the mint step reuses the config fetched before the primary step
latestConfig_snapshot(existing, fetched) == existing

\* the config the mint step works from: the one re-fetched after the primary step
latestConfig(existing, fetched) == fetched

\* main initializes the mint whether or not the account exists
mintBranch_unchecked(exists) == "initializeArkhamMint"

\* where main goes once it knows whether the mint account exists
mintBranch(exists) ==
  IF exists THEN "summary" ELSE "initializeArkhamMint"

\* the script is started; a run starts once the runs before it have ended
Start(r) ==
  /\ pc[r] = "idle"
  /\ \A q \in Runs : q < r => Terminated(q)
  /\ pc' = [pc EXCEPT ![r] = "getAccountInfo"]
  /\ UNCHANGED << config, mint, extWrites, accountPhysicallyExists, existingConfig,
                  currentConfig, mintExists, log, seen >>

\* const accountInfo = await getAccountInfo(...); accountPhysicallyExists
GetAccountInfo(r) ==
  /\ pc[r] = "getAccountInfo"
  /\ \E rpc \in RpcResults :
       /\ accountPhysicallyExists' =
            [accountPhysicallyExists EXCEPT ![r] = getAccountInfo(config, rpc)]
       /\ seen' = [seen EXCEPT ![r].info = config.state,
                               ![r].faults = IF rpc = "error" THEN @ \cup {"info"} ELSE @]
  /\ pc' = [pc EXCEPT ![r] = "fetchProtocolConfig"]
  /\ UNCHANGED << config, mint, extWrites, existingConfig, currentConfig, mintExists, log >>

\* const existingConfig = await fetchProtocolConfig(...)
FetchExisting(r) ==
  /\ pc[r] = "fetchProtocolConfig"
  /\ \E rpc \in RpcResults :
       /\ existingConfig' = [existingConfig EXCEPT ![r] = fetchProtocolConfig(config, rpc)]
       /\ seen' = [seen EXCEPT ![r].fetch = config.state,
                               ![r].faults = IF rpc = "error" THEN @ \cup {"fetch"} ELSE @]
  /\ pc' = [pc EXCEPT ![r] = "primary"]
  /\ UNCHANGED << config, mint, extWrites, accountPhysicallyExists, currentConfig,
                  mintExists, log >>

\* if (!accountPhysicallyExists): await initializeProtocolConfig(...)
InitializeAbsent(r) ==
  /\ pc[r] = "primary"
  /\ Classify(accountPhysicallyExists[r], existingConfig[r]) = "Absent"
  /\ \E result \in SubmitResults :
       /\ Submit(r, "Initialize", None, result)
       /\ pc' = [pc EXCEPT ![r] = afterPrimary(result)]
  /\ UNCHANGED << extWrites, accountPhysicallyExists, existingConfig, currentConfig,
                  mintExists, seen >>

\* else if (existingConfig === null): await closeProtocolConfig(...)
CloseIncompatible(r) ==
  /\ pc[r] = "primary"
  /\ Classify(accountPhysicallyExists[r], existingConfig[r]) = "Incompatible"
  /\ \E result \in SubmitResults :
       /\ Submit(r, "Close", None, result)
       /\ pc' = [pc EXCEPT ![r] = closeThenInitialize(result)]
  /\ UNCHANGED << extWrites, accountPhysicallyExists, existingConfig, currentConfig,
                  mintExists, seen >>

\* after the close and the 2 s wait: await initializeProtocolConfig(...)
Reinitialize(r) ==
  /\ pc[r] = "reinitialize"
  /\ \E result \in SubmitResults :
       /\ Submit(r, "Initialize", None, result)
       /\ pc' = [pc EXCEPT ![r] = afterPrimary(result)]
  /\ UNCHANGED << extWrites, accountPhysicallyExists, existingConfig, currentConfig,
                  mintExists, seen >>

\* else, needsOracleUpdate: await updateProtocolConfig(...)
UpdateCompatible(r) ==
  /\ pc[r] = "primary"
  /\ Classify(accountPhysicallyExists[r], existingConfig[r]) = "Compatible"
  /\ needsOracleUpdate(existingConfig[r])
  /\ \E result \in SubmitResults :
       /\ Submit(r, "Update", updateProtocolConfigArgs, result)
       /\ pc' = [pc EXCEPT ![r] = afterPrimary(result)]
  /\ UNCHANGED << extWrites, accountPhysicallyExists, existingConfig, currentConfig,
                  mintExists, seen >>

\* else: "Configuration is up to date"
UpToDate(r) ==
  /\ pc[r] = "primary"
  /\ Classify(accountPhysicallyExists[r], existingConfig[r]) = "Compatible"
  /\ ~needsOracleUpdate(existingConfig[r])
  /\ pc' = [pc EXCEPT ![r] = "refetch"]
  /\ UNCHANGED << config, mint, extWrites, accountPhysicallyExists, existingConfig,
                  currentConfig, mintExists, log, seen >>

\* const currentConfig = await fetchProtocolConfig(...); if (!currentConfig) throw
Refetch(r) ==
  /\ pc[r] = "refetch"
  /\ \E rpc \in RpcResults :
       LET fetched == latestConfig(existingConfig[r], fetchProtocolConfig(config, rpc)) IN
       /\ currentConfig' = [currentConfig EXCEPT ![r] = fetched]
       /\ seen' = [seen EXCEPT ![r].gate = IF rpc = "error" THEN "error" ELSE config.state,
                               ![r].gateMint = mint,
                               ![r].faults = IF rpc = "error" THEN @ \cup {"gate"} ELSE @]
       /\ pc' = [pc EXCEPT ![r] = IF fetched = Null THEN "exit1" ELSE "mintGate"]
  /\ UNCHANGED << config, mint, extWrites, accountPhysicallyExists, existingConfig,
                  mintExists, log >>

\* if (mintIsInitialized): "Already initialized"
MintLinked(r) ==
  /\ pc[r] = "mintGate"
  /\ mintIsInitialized(currentConfig[r])
  /\ pc' = [pc EXCEPT ![r] = "summary"]
  /\ UNCHANGED << config, mint, extWrites, accountPhysicallyExists, existingConfig,
                  currentConfig, mintExists, log, seen >>

\* else: const mintExists = await accountExists(...)
CheckMintExists(r) ==
  /\ pc[r] = "mintGate"
  /\ ~mintIsInitialized(currentConfig[r])
  /\ \E rpc \in RpcResults :
       /\ mintExists' = [mintExists EXCEPT ![r] = accountExists(mint, rpc)]
       /\ seen' = [seen EXCEPT ![r].faults = IF rpc = "error" THEN @ \cup {"mint"} ELSE @]
       /\ pc' = [pc EXCEPT ![r] = mintBranch(accountExists(mint, rpc))]
  /\ UNCHANGED << config, mint, extWrites, accountPhysicallyExists, existingConfig,
                  currentConfig, log >>

\* await initializeArkhamMint(...)
InitializeMint(r) ==
  /\ pc[r] = "initializeArkhamMint"
  /\ \E result \in SubmitResults :
       /\ Submit(r, "InitializeDependent", None, result)
       /\ pc' = [pc EXCEPT ![r] = IF result = "confirmed" THEN "summary" ELSE "exit1"]
  /\ UNCHANGED << extWrites, accountPhysicallyExists, existingConfig, currentConfig,
                  mintExists, seen >>

\* const finalConfig = await fetchProtocolConfig(...); the summary reads its
\* fields, so a null finalConfig throws; otherwise main resolves and exits 0
Summary(r) ==
  /\ pc[r] = "summary"
  /\ \E rpc \in RpcResults :
       /\ seen' = [seen EXCEPT ![r].faults = IF rpc = "error" THEN @ \cup {"final"} ELSE @]
       /\ pc' = [pc EXCEPT ![r] =
                   IF fetchProtocolConfig(config, rpc) = Null THEN "exit1" ELSE "exit0"]
  /\ UNCHANGED << config, mint, extWrites, accountPhysicallyExists, existingConfig,
                  currentConfig, mintExists, log >>

\* ----------------------------------------------------------- other parties
Running == \E r \in Runs : pc[r] \notin {"idle", "exit0", "exit1"}

\* another holder of the authority changes the fee while a run is under way
ExternalUpdate ==
  /\ Running
  /\ extWrites < MaxExt
  /\ config.state = "Compatible"
  /\ \E fee \in {250, 300} :
       /\ fee # config.protocolFeeBps
       /\ config' = [config EXCEPT !.protocolFeeBps = fee]
  /\ extWrites' = extWrites + 1
  /\ UNCHANGED << mint, pc, accountPhysicallyExists, existingConfig, currentConfig,
                  mintExists, log, seen >>

\* another party closes the config account while a run is under way
ExternalClose ==
  /\ Running
  /\ extWrites < MaxExt
  /\ config.state # "Absent"
  /\ config' = Absent
  /\ extWrites' = extWrites + 1
  /\ UNCHANGED << mint, pc, accountPhysicallyExists, existingConfig, currentConfig,
                  mintExists, log, seen >>

Next ==
  \/ \E r \in Runs : Start(r)
  \/ \E r \in Runs : GetAccountInfo(r)
  \/ \E r \in Runs : FetchExisting(r)
  \/ \E r \in Runs : InitializeAbsent(r)
  \/ \E r \in Runs : CloseIncompatible(r)
  \/ \E r \in Runs : Reinitialize(r)
  \/ \E r \in Runs : UpdateCompatible(r)
  \/ \E r \in Runs : UpToDate(r)
  \/ \E r \in Runs : Refetch(r)
  \/ \E r \in Runs : MintLinked(r)
  \/ \E r \in Runs : CheckMintExists(r)
  \/ \E r \in Runs : InitializeMint(r)
  \/ \E r \in Runs : Summary(r)
  \/ ExternalUpdate
  \/ ExternalClose

Spec == Init /\ [][Next]_vars

\* a step of run r once it is started: every awaited call resolves or throws
RunStep(r) ==
  \/ GetAccountInfo(r)
  \/ FetchExisting(r)
  \/ InitializeAbsent(r)
  \/ CloseIncompatible(r)
  \/ Reinitialize(r)
  \/ UpdateCompatible(r)
  \/ UpToDate(r)
  \/ Refetch(r)
  \/ MintLinked(r)
  \/ CheckMintExists(r)
  \/ InitializeMint(r)
  \/ Summary(r)

\* the runs of the script with no other party writing
NextAlone ==
  \/ \E r \in Runs : Start(r)
  \/ \E r \in Runs : RunStep(r)

\* the runs alone; a started run is not suspended for ever
SpecAlone == Init /\ [][NextAlone]_vars /\ \A r \in Runs : WF_vars(RunStep(r))


\* the script is started while another run of it may be under way
StartConcurrently(r) ==
  /\ pc[r] = "idle"
  /\ pc' = [pc EXCEPT ![r] = "getAccountInfo"]
  /\ UNCHANGED << config, mint, extWrites, accountPhysicallyExists, existingConfig,
                  currentConfig, mintExists, log, seen >>

\* two runs of the script, interleaved at every awaited call
NextConcurrent ==
  \/ \E r \in Runs : StartConcurrently(r)
  \/ \E r \in Runs : RunStep(r)

SpecConcurrent == Init /\ [][NextConcurrent]_vars

\* ------------------------------------------------------------ properties
\* the actions run r has submitted, in order
Kinds(r) == [i \in 1..Len(log[r]) |-> log[r][i].action]

IsPrimary(e) == e.action # "InitializeDependent"

\* the primary actions (Initialize, Update, Close) run r has submitted, in order
PrimaryKinds(r) ==
  LET p == SelectSeq(log[r], IsPrimary) IN [i \in 1..Len(p) |-> p[i].action]

Count(r, action) == Cardinality({i \in 1..Len(log[r]) : log[r][i].action = action})

Submitted(r, action) == Count(r, action) > 0

\* run r has taken its branch on the probed state
Probed(r) == pc[r] \notin {"idle", "getAccountInfo", "fetchProtocolConfig"}

\* run r has finished its primary step without a failure
PrimaryDone(r) ==
  pc[r] \in {"refetch", "mintGate", "initializeArkhamMint", "summary", "exit0"}
  \/ (pc[r] = "exit1" /\ seen[r].gate # "none")

Observed(r) == Classify(accountPhysicallyExists[r], existingConfig[r])

\* the ledger matches CONFIG_PARAMS and the mint exists and is linked
Provisioned ==
  /\ config.state = "Compatible"
  /\ \A f \in DesiredFields : config[f] = CONFIG_PARAMS[f]
  /\ mint
  /\ config.arkhamTokenMint = MintPda

\* C1: once a run has completed (exit 0) and no other party has written,
\* the next run with the same CONFIG_PARAMS submits no action at all.
C1_Idempotence ==
  (pc[1] = "exit0" /\ extWrites = 0) => log[2] = << >>

\* C2: a run that observed the config Compatible with some CONFIG_PARAMS
\* field different from the observed value submits exactly one Update.
C2_UpdateWhenFieldsDiffer ==
  \A r \in Runs :
    ( /\ Probed(r) /\ pc[r] # "primary"
      /\ Observed(r) = "Compatible"
      /\ \E f \in DesiredFields : existingConfig[r][f] # CONFIG_PARAMS[f] )
    => Count(r, "Update") = 1

\* C3: every Update carries only the fields whose desired value differs from
\* the observed one; a field already equal to the desired value is sent as null.
C3_FieldPreservation ==
  \A r \in Runs : \A i \in 1..Len(log[r]) :
    log[r][i].action = "Update" =>
      \A f \in DesiredFields :
        log[r][i].args[f] # None => existingConfig[r][f] # CONFIG_PARAMS[f]

\* C4: a run that observed the config Incompatible submits, as primary
\* actions, Close and then Initialize and nothing else: never an Update,
\* never an Initialize without the Close before it, and a run whose primary
\* step finished has submitted exactly Close, Initialize.
C4_MigrationSafety ==
  \A r \in Runs :
    (Probed(r) /\ Observed(r) = "Incompatible") =>
      /\ PrimaryKinds(r) \in { << >>, <<"Close">>, <<"Close", "Initialize">> }
      /\ pc[r] = "primary" <=> PrimaryKinds(r) = << >>
      /\ pc[r] = "reinitialize" => PrimaryKinds(r) = <<"Close">>
      /\ PrimaryDone(r) => PrimaryKinds(r) = <<"Close", "Initialize">>

C4_Witness ==
  \E r \in Runs :
    /\ seen[r].fetch = "Incompatible" /\ seen[r].faults = {}
    /\ Observed(r) = "Incompatible"
    /\ pc[r] = "exit0"
    /\ PrimaryKinds(r) = <<"Close", "Initialize">>

\* C5: an action is submitted only after the one before it in the same run was
\* confirmed; after a Close that was not confirmed the run submits nothing more.
C5_StrictSequencing ==
  \A r \in Runs : \A i \in 1..Len(log[r]) :
    /\ i > 1 => log[r][i - 1].result = "confirmed"
    /\ (log[r][i].action = "Close" /\ log[r][i].result # "confirmed") =>
         (Len(log[r]) = i /\ pc[r] = "exit1")

C5_Witness ==
  \E r \in Runs :
    /\ Len(log[r]) = 1
    /\ log[r][1].action = "Close" /\ log[r][1].result # "confirmed"
    /\ pc[r] = "exit1"

\* C6: InitializeDependent is submitted only when the fetch made after the
\* primary step found the config Compatible; when that fetch finds the account
\* Absent or Incompatible the run exits 1 without submitting InitializeDependent.
C6_DependentSequencing ==
  \A r \in Runs :
    /\ Submitted(r, "InitializeDependent") =>
         (seen[r].gate = "Compatible" /\ currentConfig[r] # Null)
    /\ seen[r].gate \in {"Absent", "Incompatible", "error"} =>
         (pc[r] = "exit1" /\ ~Submitted(r, "InitializeDependent"))

C6_Witness ==
  \E r \in Runs :
    /\ seen[r].info = "Absent" /\ Observed(r) = "Absent"
    /\ seen[r].gate = "Compatible"
    /\ Submitted(r, "InitializeDependent")

\* C7: when the re-fetched config is Compatible with a non-null mint link and
\* the mint account is absent, the run fails (it does not go on to the summary
\* and exit 0) and submits nothing.
C7_StaleLinkDetected ==
  \A r \in Runs :
    ( /\ seen[r].gate = "Compatible" /\ currentConfig[r] # Null
      /\ currentConfig[r].arkhamTokenMint # DefaultKey
      /\ ~seen[r].gateMint )
    => (pc[r] \notin {"summary", "exit0"} /\ ~Submitted(r, "InitializeDependent"))

\* C8: when the latest run has exited 0 (and no other party has written), the
\* config is Compatible and equals CONFIG_PARAMS in every desired field, and
\* the mint exists and is linked from the config.
C8_ExitZeroProvisioned ==
  \A r \in Runs :
    (pc[r] = "exit0" /\ extWrites = 0 /\ \A q \in Runs : q > r => pc[q] = "idle")
    => Provisioned

\* run r passed the mint gate with a Compatible config whose mint link is null
NullLinkGated(r) ==
  /\ pc[r] \in {"summary", "exit0", "exit1"}
  /\ currentConfig[r] # Null
  /\ ~mintIsInitialized(currentConfig[r])

\* C9 as stated: with a Compatible re-fetched config whose mint link is null,
\* the run submits exactly one InitializeDependent whatever the mint address holds.
C9_NullLinkAlwaysInitializes ==
  \A r \in Runs : NullLinkGated(r) => Count(r, "InitializeDependent") = 1

\* C9 amended: with a Compatible re-fetched config whose mint link is null, the
\* run submits exactly one InitializeDependent when its check of the mint
\* address reports no account, and none when the check finds an account.
C9_NullLinkGate ==
  \A r \in Runs :
    /\ NullLinkGated(r) =>
         Count(r, "InitializeDependent") = (IF mintExists[r] THEN 0 ELSE 1)
    /\ (pc[r] = "initializeArkhamMint") =>
         (~mintExists[r] /\ ~mintIsInitialized(currentConfig[r]))

C9_Witness ==
  \E r \in Runs :
    /\ NullLinkGated(r)
    /\ ~mintExists[r] /\ ~seen[r].gateMint
    /\ Count(r, "InitializeDependent") = 1
    /\ pc[r] = "exit0"

\* C10: a failed read is not a classification: a run takes the Absent branch
\* only when the account held no bytes at its getAccountInfo, and (the account
\* being the same at both reads) the Incompatible branch only when the bytes
\* present fail to decode; a run whose probe hit a failed read submits neither
\* Close nor Initialize.
C10_TransportNotClassified ==
  \A r \in Runs :
    Probed(r) =>
      /\ Observed(r) = "Absent" => seen[r].info = "Absent"
      /\ (Observed(r) = "Incompatible" /\ seen[r].info = seen[r].fetch) =>
           seen[r].fetch = "Incompatible"
      /\ (seen[r].faults \cap {"info", "fetch"} # {}) =>
           (~Submitted(r, "Close") /\ ~Submitted(r, "Initialize"))


\* the mint account did not exist before the runs: only a landed
\* InitializeDependent creates it
MintAbsentAtStart ==
  mint => \E r \in Runs : \E i \in 1..Len(log[r]) :
            log[r][i].action = "InitializeDependent" /\ log[r][i].result # "failed"

\* no run was started after run r
Latest(r) == \A q \in Runs : q > r => pc[q] = "idle"

\* C12: a single run never leaves a mint that existed before it with a config
\* it closed and initialized anew, whose mint link is null.
C12_CloseKeepsDependentLinked ==
  \A r \in Runs :
    ( /\ extWrites = 0 /\ Latest(r)
      /\ PrimaryKinds(r) = <<"Close", "Initialize">>
      /\ log[r][2].result # "failed" )
    => ~(mint /\ config.state = "Compatible" /\ config.arkhamTokenMint = DefaultKey)

\* C15: a submission that is not confirmed is the run's last: the run exits 1
\* and submits nothing after it, no compensating action either, so what was
\* confirmed before stays applied: after a confirmed Close and a failed
\* Initialize the config account is Absent.
C15_FailureHalts ==
  \A r \in Runs :
    /\ \A i \in 1..Len(log[r]) :
         log[r][i].result # "confirmed" => (i = Len(log[r]) /\ pc[r] = "exit1")
    /\ ( /\ Latest(r) /\ Kinds(r) = <<"Close", "Initialize">>
         /\ log[r][2].result = "failed" )
       => config = Absent

C15_Witness ==
  \E r \in Runs :
    /\ Kinds(r) = <<"Close", "Initialize">>
    /\ log[r][1].result = "confirmed" /\ log[r][2].result = "failed"
    /\ pc[r] = "exit1" /\ config = Absent

\* run r observed a Compatible config equal to CONFIG_PARAMS in every field
ObservedUpToDate(r) ==
  /\ Probed(r)
  /\ Observed(r) = "Compatible"
  /\ \A f \in DesiredFields : existingConfig[r][f] = CONFIG_PARAMS[f]

\* C16: a run that observed the config Compatible and equal to CONFIG_PARAMS
\* in every field submits no Initialize, Update or Close, and (no other party
\* writing) the config record is the one it observed.
C16_UpToDateNoPrimary ==
  \A r \in Runs :
    ObservedUpToDate(r) =>
      /\ PrimaryKinds(r) = << >>
      /\ (pc[r] \in {"primary", "refetch"} /\ extWrites = 0) => config = existingConfig[r]

C16_Witness ==
  \E r \in Runs :
    /\ ObservedUpToDate(r) /\ seen[r].faults = {}
    /\ pc[r] = "exit0"
    /\ log[r] = << >>

\* the step appends an Update to run r's log
UpdateStep(r) ==
  /\ Len(log'[r]) = Len(log[r]) + 1
  /\ log'[r][Len(log'[r])].action = "Update"

\* C17: an Update submitted by a run leaves the config's reputationUpdater,
\* treasury, authority and arkhamTokenMint as they were.
C17_UpdateFrame ==
  [][ \A r \in Runs :
        UpdateStep(r) =>
          /\ config'.state = config.state
          /\ config.state = "Compatible" =>
               \A f \in {"reputationUpdater", "treasury", "authority", "arkhamTokenMint"} :
                 config'[f] = config[f] ]_vars

C17_Witness ==
  \E r \in Runs :
    /\ Kinds(r) = <<"Update">> /\ log[r][1].result = "confirmed"
    /\ existingConfig[r].oracleAuthority # CONFIG_PARAMS.oracleAuthority
    /\ config.state = "Compatible"
    /\ config.oracleAuthority = CONFIG_PARAMS.oracleAuthority
    /\ config.reputationUpdater = existingConfig[r].reputationUpdater

\* C18: with no read failing, the branch a run takes is a state the config
\* account had at one of the run's reads.
C18_SingleSnapshot ==
  \A r \in Runs :
    (Probed(r) /\ seen[r].faults \cap {"info", "fetch"} = {}) =>
      Observed(r) \in {seen[r].info, seen[r].fetch}

\* some primary action of run r was not confirmed
PrimaryFailed(r) ==
  \E i \in 1..Len(log[r]) : IsPrimary(log[r][i]) /\ log[r][i].result # "confirmed"

\* C19: a run one of whose primary actions failed makes no re-fetch for the
\* mint step and submits no InitializeDependent.
C19_NoDependentAfterFailure ==
  \A r \in Runs :
    PrimaryFailed(r) =>
      /\ seen[r].gate = "none" /\ currentConfig[r] = Null
      /\ ~Submitted(r, "InitializeDependent")
      /\ pc[r] = "exit1"

C19_Witness ==
  \E r \in Runs :
    /\ Kinds(r) = <<"Initialize">> /\ log[r][1].result = "timeout"
    /\ config.state = "Compatible" /\ ~mint
    /\ pc[r] = "exit1" /\ seen[r].gate = "none"

\* C20: a run submits each kind of action at most once, nothing after an
\* action that was not confirmed, and at most three actions in all.
C20_NoRetry ==
  \A r \in Runs :
    /\ \A a \in {"Close", "Initialize", "Update", "InitializeDependent"} : Count(r, a) <= 1
    /\ \A i \in 1..Len(log[r]) : log[r][i].result # "confirmed" => i = Len(log[r])
    /\ Len(log[r]) <= 3

C20_Witness ==
  \E r \in Runs :
    /\ Kinds(r) = <<"Close", "Initialize", "InitializeDependent">>
    /\ pc[r] = "exit0"


\* every submission of run r was confirmed
AllConfirmed(r) == \A i \in 1..Len(log[r]) : log[r][i].result = "confirmed"

\* run r found the config account Absent, the mint did not exist before the
\* runs, and no other party has written
ScenarioA(r) ==
  /\ seen[r].info = "Absent"
  /\ MintAbsentAtStart
  /\ extWrites = 0

ScenarioAOutcome(r) ==
  /\ pc[r] = "exit0"
  /\ Kinds(r) = <<"Initialize", "InitializeDependent">>
  /\ seen[r].gate = "Compatible"
  /\ currentConfig[r].arkhamTokenMint = DefaultKey
  /\ Latest(r) => Provisioned

HaltedOnFailure(r) == pc[r] = "exit1" /\ ~AllConfirmed(r)

\* C14: the mint not existing before the runs, when run 1 halted on a failed
\* submission and every submission of run 2 was confirmed (none of run 2's
\* reads failing), run 2 ends with exit code 0, the config Compatible and the
\* mint present and linked.
C14_RetryRecovers ==
  ( /\ MintAbsentAtStart
    /\ HaltedOnFailure(1)
    /\ Terminated(2) /\ AllConfirmed(2) /\ seen[2].faults = {} )
  => ( /\ pc[2] = "exit0"
       /\ config.state = "Compatible"
       /\ mint
       /\ config.arkhamTokenMint = MintPda )


\* C11: for two interleaved runs (no read failing), the mint not existing
\* before them: whenever the mint exists the config is Compatible and links it.
C11_ConcurrentRunsSafe ==
  ( /\ MintAbsentAtStart
    /\ \A r \in Runs : seen[r].faults = {} )
  => (mint => (config.state = "Compatible" /\ config.arkhamTokenMint = MintPda))

====
